---- MODULE Spec2Model ----
\* A model of model.py (GPT-2 forward graph): model construction, the
\* transformer stack's forward pass with the per-layer key/value cache,
\* the causal-mask window of Attention._attn, and the weight tying of the
\* LM head.  Floating-point values are modelled as symbolic terms: a term
\* records which operation produced a value and from which operands, so two
\* values are equal exactly when they were computed by the same operations
\* from the same inputs in the same order.
EXTENDS Integers, Sequences, FiniteSets, TLC

\* ---------------------------------------------------------------- bounds

\* n_ctx (= n_positions) of every configuration explored, and the longest
\* token chunk a caller feeds in one call.
MaxCtx == 3
\* The largest n_layer explored.
MaxLayer == 2

\* (n_embd, n_head) pairs offered to the constructor; some do not divide.
HeadSplits == {<<1, 1>>, <<2, 1>>, <<2, 2>>, <<1, 2>>, <<2, 0>>}
\* Batch sizes of input_ids.
BatchSizes == {1, 2}
\* Token ids, range(vocab_size).
Vocab == {0, 1}

\* ---------------------------------------------------------------- values

\* A floating-point value, symbolically: the operation, the layer whose
\* parameters it used (0: none), an index, and the operand terms.
Term(op, l, i, args) == [op |-> op, l |-> l, i |-> i, args |-> args]

\* The value -1e10 * (1 - b) leaves in a masked score (w * 0 - 1e10).
NegInf == Term("-1e10", 0, 0, <<>>)

Min(a, b) == IF a < b THEN a ELSE b

\* A matrix is a sequence of rows; a 4-D tensor (batch, head, rows, cols)
\* is T[b][h] = matrix.
Rows(M) == Len(M)
Cols(M) == Len(M[1])

\* Tensor.transpose(-2, -1) of one (batch, head) slice.
Transpose(M) == [j \in 1..Cols(M) |-> [i \in 1..Rows(M) |-> M[i][j]]]

\* torch.cat((A, B), dim=-1) of one slice: the rows are joined pairwise.
CatLast(A, B) == [i \in 1..Rows(A) |-> A[i] \o B[i]]

\* torch.cat((A, B), dim=-2) of one slice: B's rows follow A's.
CatRows(A, B) == A \o B

\* ------------------------------------------------------------ components

\* LayerNorm.forward: a function of the whole last-axis vector.
LayerNorm(name, l, x) == Term(name, l, 0, <<x>>)

\* Conv1D.forward: output feature c of x @ weight + bias, for one position.
Conv1D(name, l, c, x) == Term(name, l, c, <<x>>)

\* MLP.forward: c_proj(gelu(c_fc(x))).
MLP(l, x) == Conv1D("mlp.c_proj", l, 0, Term("gelu", l, 0, <<Conv1D("mlp.c_fc", l, 0, x)>>))

\* The registered buffer "bias": tril(ones(n_ctx, n_ctx)), 0-indexed.
bias(n_ctx) == [i \in 0..n_ctx-1 |-> [j \in 0..n_ctx-1 |-> IF j <= i THEN 1 ELSE 0]]

\* Python's slice lo:hi of a length-n axis, for 0 <= lo <= hi: the indices kept.
SliceIdx(lo, hi, n) == [k \in 1..(Min(hi, n) - Min(lo, n)) |-> Min(lo, n) + k - 1]

\* MaskSlice had the buffer been built without its diagonal (tril(..., -1)).
MaskOffDiag(n_ctx, nd, ns) ==
    LET rs == SliceIdx(ns - nd, ns, n_ctx)
        cs == SliceIdx(0, ns, n_ctx)
    IN  [r \in 1..Len(rs) |-> [j \in 1..Len(cs) |-> IF cs[j] < rs[r] THEN 1 ELSE 0]]
\* MaskSlice had the rows been taken from 0 (bias[:nd, :ns]).
MaskNoOffset(n_ctx, nd, ns) ==
    LET rs == SliceIdx(0, nd, n_ctx)
        cs == SliceIdx(0, ns, n_ctx)
    IN  [r \in 1..Len(rs) |-> [j \in 1..Len(cs) |-> bias(n_ctx)[rs[r]][cs[j]]]]
\* b = self.bias[:, :, ns-nd:ns, :ns] as a matrix (1-indexed sequence of
\* rows).  Slicing clips at n_ctx and never raises.
MaskSlice(n_ctx, nd, ns) ==
    LET rs == SliceIdx(ns - nd, ns, n_ctx)
        cs == SliceIdx(0, ns, n_ctx)
    IN  [r \in 1..Len(rs) |-> [j \in 1..Len(cs) |-> bias(n_ctx)[rs[r]][cs[j]]]]

\* Whether w (nd x ns) and b broadcast to w's shape in w * b; torch raises
\* RuntimeError otherwise.  (A size-1 axis of b is repeated.)
Broadcasts(b, nd, ns) ==
    /\ Len(b) \in {1, nd}
    /\ Len(b) > 0
    /\ Len(b[1]) \in {1, ns}

\* b[r][j] after broadcasting to (nd, ns).
MaskBit(b, r, j) ==
    b[IF Len(b) = 1 THEN 1 ELSE r][IF Len(b[1]) = 1 THEN 1 ELSE j]

\* e's value under a name: Body applied to the value of e, with e
\* evaluated once.
Bind(e, Body(_)) == CHOOSE y \in {Body(r) : r \in {e}} : TRUE

\* Attention._attn on one (batch, head) slice: q is nd x hf, k is hf x ns,
\* v is ns x hf.  Scores w = q @ k, scaled (GPT2Model builds its blocks with
\* scale=True); w * b - 1e10 * (1 - b) keeps the score where b = 1 and puts
\* -1e10 where b = 0; softmax gives a -1e10 score the weight exp(-1e10 - max),
\* which is 0 in floating point, so output row r is the weighted sum over the
\* columns j whose score survived, in column order.
_attn(n_ctx, l, q, k, v) ==
    Bind(MaskSlice(n_ctx, Rows(q), Cols(k)), LAMBDA b :
        LET nd == Rows(q)
            ns == Cols(k)
            hf == Cols(v)
            w(r, j) == Term("scale", l, hf,
                            <<Term("dot", l, 0, q[r] \o [f \in 1..Rows(k) |-> k[f][j]])>>)
            wm(r, j) == IF MaskBit(b, r, j) = 1 THEN w(r, j) ELSE NegInf
            wv(r, f, j) == IF wm(r, j) = NegInf THEN NegInf
                           ELSE Term("w*v", l, 0, <<wm(r, j), v[j][f]>>)
        IN  IF ~Broadcasts(b, nd, ns)
            THEN [raised |-> "RuntimeError", out |-> <<>>]
            ELSE [raised |-> "",
                  out |-> [r \in 1..nd |-> [f \in 1..hf |->
                             Term("softmax@v", l, f,
                                  SelectSeq([j \in 1..ns |-> wv(r, f, j)],
                                            LAMBDA e : e # NegInf))]]])

\* x.split(n_state, dim=2) then view(..., n_head, head_features): feature f
\* of head h of part p (0 query, 1 key, 2 value) is c_attn output column
\* p * n_state + (h - 1) * head_features + f.
SplitHeads(cfg, l, p, x, b, h, t, f) ==
    Conv1D("attn.c_attn", l,
           p * cfg.n_embd + (h - 1) * (cfg.n_embd \div cfg.n_head) + f, x[b][t])

\* CatPast had the cache been ignored.
CatDropPast(past, knew, vnew) == [k |-> knew, v |-> vnew]
\* CatPast had the new keys and values been put before the cached ones.
CatNewFirst(past, knew, vnew) ==
    [k |-> [b \in 1..Len(knew) |-> [h \in 1..Len(knew[b]) |->
              CatLast(knew[b][h], Transpose(past.k[b][h]))]],
     v |-> [b \in 1..Len(vnew) |-> [h \in 1..Len(vnew[b]) |->
              CatRows(vnew[b][h], past.v[b][h])]]]
\* The (key, value) a call works with when there is a cache (lines 78-81):
\* the cached ones, then the new ones.  key is (batch, head, head_features,
\* seq), value is (batch, head, seq, head_features); the cache keeps the key
\* transposed.
CatPast(past, knew, vnew) ==
    [k |-> [b \in 1..Len(knew) |-> [h \in 1..Len(knew[b]) |->
              CatLast(Transpose(past.k[b][h]), knew[b][h])]],
     v |-> [b \in 1..Len(vnew) |-> [h \in 1..Len(vnew[b]) |->
              CatRows(past.v[b][h], vnew[b][h])]]]

\* StorePresent had the incoming cache tensor been grown in place.
StoreInPlace(heap, layer_past, kv) ==
    IF layer_past = 0
    THEN [heap |-> Append(heap, [k |-> [b \in 1..Len(kv.k) |-> [h \in 1..Len(kv.k[b]) |->
                                          Transpose(kv.k[b][h])]],
                                 v |-> kv.v]),
          id |-> Len(heap) + 1]
    ELSE [heap |-> [heap EXCEPT ![layer_past] =
                       [k |-> [b \in 1..Len(kv.k) |-> [h \in 1..Len(kv.k[b]) |->
                                 Transpose(kv.k[b][h])]],
                        v |-> kv.v]],
          id |-> layer_past]
\* present = torch.stack((key.transpose(2, 3), value)): a new tensor.  The
\* heap is the sequence of cache tensors allocated so far; a tensor's id is
\* its index.
StorePresent(heap, layer_past, kv) ==
    [heap |-> Append(heap, [k |-> [b \in 1..Len(kv.k) |-> [h \in 1..Len(kv.k[b]) |->
                                     Transpose(kv.k[b][h])]],
                            v |-> kv.v]),
     id |-> Len(heap) + 1]

\* Attention.forward for layer l: x[b][t] is the input at batch row b,
\* position t; layer_past is a heap id, 0 for None.
AttentionForward(cfg, l, heap, x, layer_past) ==
    LET B == Len(x)
        S == Len(x[1])
        H == cfg.n_head
        hf == cfg.n_embd \div cfg.n_head
        failed(e) == [raised |-> e, a |-> <<>>, present |-> 0, heap |-> heap]
    IN  IF H * hf # cfg.n_embd
        \* query.view(..., n_head, head_features) needs n_head * head_features
        \* elements on the last axis.
        THEN failed("RuntimeError")
        ELSE
        Bind([q |-> [b \in 1..B |-> [h \in 1..H |-> [t \in 1..S |-> [f \in 1..hf |->
                       SplitHeads(cfg, l, 0, x, b, h, t, f)]]]],
              k |-> [b \in 1..B |-> [h \in 1..H |-> [f \in 1..hf |-> [t \in 1..S |->
                       SplitHeads(cfg, l, 1, x, b, h, t, f)]]]],
              v |-> [b \in 1..B |-> [h \in 1..H |-> [t \in 1..S |-> [f \in 1..hf |->
                       SplitHeads(cfg, l, 2, x, b, h, t, f)]]]]], LAMBDA new :
        Bind(IF layer_past = 0 THEN [k |-> new.k, v |-> new.v]
             ELSE CatPast(heap[layer_past], new.k, new.v), LAMBDA kv :
        Bind(StorePresent(heap, layer_past, kv), LAMBDA st :
        Bind([b \in 1..B |-> [h \in 1..H |->
                 _attn(cfg.n_ctx, l, new.q[b][h], kv.k[b][h], kv.v[b][h])]], LAMBDA at :
            IF \E b \in 1..B : \E h \in 1..H : at[b][h].raised # ""
            THEN failed("RuntimeError")
            ELSE [raised |-> "",
                  \* a.transpose(1, 2).contiguous().view(..., n_state): the
                  \* heads' features side by side, then c_proj.
                  a |-> [b \in 1..B |-> [t \in 1..S |->
                           Conv1D("attn.c_proj", l, 0,
                                  Term("merge_heads", l, 0,
                                       [c \in 1..cfg.n_embd |->
                                          at[b][((c - 1) \div hf) + 1].out[t][((c - 1) % hf) + 1]]))]],
                  present |-> st.id, heap |-> st.heap]))))

\* The hidden states computed so far, each under a number: a hidden state
\* leaving a block is written Term("h", 0, n, <<>>) with n its index in the
\* table, so the next block's terms name it instead of repeating it.  Equal
\* hidden states get the same number and different ones different numbers.
\* InternAll numbers the terms ts: those not in the table yet are appended
\* in order of first occurrence.
InternAll(tab, ts) ==
    Bind(SelectSeq([i \in 1..Len(ts) |-> i],
                   LAMBDA i : /\ \A n \in 1..Len(tab) : tab[n] # ts[i]
                              /\ \A i2 \in 1..(i - 1) : ts[i2] # ts[i]), LAMBDA new :
    Bind(tab \o [n \in 1..Len(new) |-> ts[new[n]]], LAMBDA tab2 :
        [tab |-> tab2,
         ns |-> [i \in 1..Len(ts) |-> CHOOSE n \in 1..Len(tab2) : tab2[n] = ts[i]]]))

\* The residual adds and the MLP of Block.forward (lines 118-120) at one
\* position: x + a, then that plus mlp(ln_2(that)).
Residuals(l, x, a) ==
    Bind(Term("add", l, 1, <<x, a>>), LAMBDA x1 :
        Term("add", l, 2, <<x1, MLP(l, LayerNorm("ln_2", l, x1))>>))

\* Block.forward: pre-norm attention and MLP, each with a residual add.
BlockForward(cfg, l, heap, tab, x, layer_past) ==
    Bind([b \in 1..Len(x) |-> [t \in 1..Len(x[b]) |-> LayerNorm("ln_1", l, x[b][t])]],
         LAMBDA ln1 :
    Bind(AttentionForward(cfg, l, heap, ln1, layer_past), LAMBDA att :
        IF att.raised # ""
        THEN [raised |-> att.raised, x |-> <<>>, present |-> 0, heap |-> heap, tab |-> tab]
        ELSE
        Bind([i \in 1..(Len(x) * Len(x[1])) |->
                Residuals(l, x[((i - 1) \div Len(x[1])) + 1][((i - 1) % Len(x[1])) + 1],
                          att.a[((i - 1) \div Len(x[1])) + 1][((i - 1) % Len(x[1])) + 1])],
             LAMBDA x2 :
        Bind(InternAll(tab, x2), LAMBDA named :
            [raised |-> "",
             x |-> [b \in 1..Len(x) |-> [t \in 1..Len(x[b]) |->
                      Term("h", 0, named.ns[(b - 1) * Len(x[1]) + t], <<>>)]],
             present |-> att.present, heap |-> att.heap, tab |-> named.tab]))))

\* The past argument of GPT2Model.forward: None, or a list of heap ids.
PastNone == [none |-> TRUE, ids |-> <<>>]
PastList(ids) == [none |-> FALSE, ids |-> ids]

\* PastLength had the cache's length been left out.
PastLengthZero(heap, past) == 0
\* past_length (lines 142-146): 0 without a cache, else the sequence length
\* of the first entry's key, past[0][0].size(-2).
PastLength(heap, past) ==
    IF past.none THEN 0 ELSE Rows(heap[past.ids[1]].k[1][1])

\* position_ids (lines 147-149): arange(past_length, S + past_length),
\* expanded to every batch row.
PositionIds(past_length, input_ids) ==
    [b \in 1..Len(input_ids) |-> [t \in 1..Len(input_ids[b]) |-> past_length + t - 1]]

\* for block, layer_past in zip(self.h, past) (lines 163-166), from pair i
\* on: zip stops at the shorter of the two.  st carries the hidden state,
\* the heap, the presents collected, the blocks applied so far and, for
\* each of them, the hidden state it was given (xs).
RECURSIVE RunBlocks(_, _, _, _)
RunBlocks(cfg, st, layer_pasts, i) ==
    Bind(st, LAMBDA s :
        IF i > Min(cfg.n_layer, Len(layer_pasts)) \/ s.raised # "" THEN s
        ELSE Bind(BlockForward(cfg, i, s.heap, s.tab, s.hidden, layer_pasts[i]), LAMBDA r :
                 RunBlocks(cfg,
                           [raised |-> r.raised, hidden |-> r.x, heap |-> r.heap,
                            tab |-> r.tab, xs |-> Append(s.xs, s.hidden),
                            presents |-> Append(s.presents, r.present),
                            applied |-> Append(s.applied, i)],
                           layer_pasts, i + 1)))

\* GPT2Model.forward(input_ids, past=past) with position_ids and
\* token_type_ids left None.  input_ids[b][t] is a token id.
Forward(cfg, heap, tab, input_ids, past) ==
    LET failed(e) == [raised |-> e, hidden |-> <<>>, heap |-> heap, tab |-> tab,
                      presents |-> <<>>, xs |-> <<>>,
                      applied |-> <<>>, position_ids |-> <<>>, past_length |-> 0]
    IN  IF ~past.none /\ past.ids = <<>> THEN failed("IndexError")
        ELSE
        Bind(PastLength(heap, past), LAMBDA past_length :
        Bind(PositionIds(past_length, input_ids), LAMBDA position_ids :
            IF \E b \in 1..Len(input_ids) : \E t \in 1..Len(input_ids[b]) :
                  \/ position_ids[b][t] >= cfg.n_positions
                  \/ input_ids[b][t] >= cfg.vocab_size
            \* nn.Embedding raises on an index outside its table.
            THEN failed("IndexError")
            ELSE
            Bind(RunBlocks(cfg,
                           [raised |-> "",
                            hidden |-> [b \in 1..Len(input_ids) |->
                                         [t \in 1..Len(input_ids[b]) |->
                                           Term("add", 0, 0,
                                                <<Term("wte", 0, input_ids[b][t], <<>>),
                                                  Term("wpe", 0, position_ids[b][t], <<>>)>>)]],
                            heap |-> heap, tab |-> tab, xs |-> <<>>, presents |-> <<>>,
                            applied |-> <<>>],
                           IF past.none THEN [i \in 1..cfg.n_layer |-> 0] ELSE past.ids,
                           1), LAMBDA st :
                IF st.raised # "" THEN failed(st.raised)
                ELSE [raised |-> "",
                      hidden |-> [b \in 1..Len(input_ids) |-> [t \in 1..Len(input_ids[b]) |->
                                    LayerNorm("ln_f", 0, st.hidden[b][t])]],
                      heap |-> st.heap, tab |-> st.tab,
                      presents |-> st.presents, xs |-> st.xs, applied |-> st.applied,
                      position_ids |-> position_ids, past_length |-> past_length])))

\* AttentionInit without the assert: only the division by zero is left.
AttentionInitNoAssert(n_state, n_head) ==
    IF n_head = 0 THEN "ZeroDivisionError" ELSE ""
\* Attention.__init__ (lines 42-47): the assert on the head split; a zero
\* head count fails in the modulo itself.
AttentionInit(n_state, n_head) ==
    IF n_head = 0 THEN "ZeroDivisionError"
    ELSE IF n_state % n_head # 0 THEN "AssertionError"
    ELSE ""

\* GPT2Model.__init__: one Block is built (Block.__init__ builds its
\* Attention with nx = n_embd) and deep-copied n_layer times.
GPT2ModelInit(cfg) == AttentionInit(cfg.n_embd, cfg.n_head)

\* The configurations a caller constructs a model with.
Configs ==
    [n_layer : 1..MaxLayer, n_embd : {s[1] : s \in HeadSplits},
     n_head : {s[2] : s \in HeadSplits}, n_ctx : {MaxCtx}, n_positions : {MaxCtx},
     vocab_size : {Cardinality(Vocab)}]

\* The input_ids of shape (B, S) explored: any token sequence in row 1, and
\* each further row the previous one with every token id stepped by one
\* (mod vocab_size), so that the rows of a batch differ.
Inputs(B, S) ==
    {[b \in 1..B |-> [t \in 1..S |-> (row[t] + b - 1) % Cardinality(Vocab)]] :
        row \in [1..S -> Vocab]}

\* A cache entry the caller supplies: a (key, value) pair of sequence length
\* P for batch size B, as a heap tensor (layer_past, line 64); its elements
\* are values of the caller's, each written as a term of its own.
ExtCache(cfg, B, P) ==
    LET el(name, b, h, j, f) == Term(name, 0, ((b * 10 + h) * 10 + j) * 10 + f, <<>>)
        hf == cfg.n_embd \div cfg.n_head
    IN  [k |-> [b \in 1..B |-> [h \in 1..cfg.n_head |-> [j \in 1..P |-> [f \in 1..hf |->
                  el("past.k", b, h, j, f)]]]],
         v |-> [b \in 1..B |-> [h \in 1..cfg.n_head |-> [j \in 1..P |-> [f \in 1..hf |->
                  el("past.v", b, h, j, f)]]]]]

\* ------------------------------------------------------------ weight tying

\* The values a (vocab_size, n_embd) weight matrix may hold, and the hidden
\* states fed to the head.
Cells == {0, 1}
Matrices == [1..2 -> [1..2 -> Cells]]
Hiddens == [1..2 -> Cells]

\* A parameter is a reference into the store ps (reference -> matrix);
\* torch allocates a new one at a reference not in use.
Alloc(ps) == CHOOSE r \in 1..(Cardinality(DOMAIN ps) + 1) : r \notin DOMAIN ps

\* set_embeddings_weights had the head been given a copy of the matrix.
SetEmbeddingsCopy(ps, w, init) ==
    [params |-> ps @@ (Alloc(ps) :> ps[w]), weight |-> Alloc(ps), bias |-> 0]
\* GPT2LMHead.set_embeddings_weights (lines 177-180): a new
\* nn.Linear(n_embd, vocab, bias=False), whose own weight starts at init,
\* then decoder.weight is rebound to the parameter passed in.  bias 0 is
\* None.
set_embeddings_weights(ps, w, init) ==
    LET linear == [params |-> ps @@ (Alloc(ps) :> init), weight |-> Alloc(ps), bias |-> 0]
    IN  [linear EXCEPT !.weight = w]

\* The store without the parameters nothing refers to any more.
Live(ps, refs) == [r \in (DOMAIN ps) \cap refs |-> ps[r]]

\* GPT2LMHead.forward: nn.Linear without bias, logits[v] = sum over e of
\* hidden[e] * weight[v][e].
LMHeadForward(ps, decoder, hidden) ==
    [v \in 1..2 |-> hidden[1] * ps[decoder.weight][v][1]
                    + hidden[2] * ps[decoder.weight][v][2]]

\* ----------------------------------------------------------------- state

VARIABLES
    status,     \* "unbuilt", "built", "construct_failed", or "raised" once a call raised
    config,     \* the Config the model was constructed with
    heap,       \* the cache tensors allocated so far
    values,     \* the table of hidden states computed so far (see Intern)
    past,       \* what the caller passes as past on its next call
    fed,        \* fed[b]: the tokens fed so far for batch row b
    outs,       \* outs[b]: the hidden states returned so far for batch row b
    positions,  \* positions[b]: the position ids used so far for batch row b
    chunks,     \* the new-token count of each call that returned
    last,       \* the last call: its arguments and what it returned or raised
    attnCall,   \* the last direct Attention.forward call and its result
    params,     \* GPT2LMHeadModel: the parameter store, reference -> matrix
    wte,        \* transformer.wte.weight: a reference, 0 before construction
    decoder,    \* lm_head.decoder: [weight |-> reference, bias |-> 0 for None]
    lmOps,      \* which of "set_tied", "update" the model has been through
    lmOut       \* the last lm_head call: hidden, logits, the embedding table
                \* then, and lmOps then

vars == <<status, config, heap, values, past, fed, outs, positions, chunks, last,
          attnCall, params, wte, decoder, lmOps, lmOut>>
sessionVars == <<status, config, heap, values, past, fed, outs, positions, chunks, last>>
tiedVars == <<params, wte, decoder, lmOps, lmOut>>

NoCall == [raised |-> "", past |-> PastNone, S |-> 0, presents |-> <<>>,
           xs |-> <<>>, applied |-> <<>>, position_ids |-> <<>>, past_length |-> 0]

NoAttnCall == [S |-> 0]
NoLmOut == [hidden |-> <<>>, logits |-> <<>>, table |-> <<>>, ops |-> {}]

NoLMHeadModel ==
    /\ params = <<>>
    /\ wte = 0
    /\ decoder = [weight |-> 0, bias |-> 0]
    /\ lmOps = {}
    /\ lmOut = NoLmOut

NoSession ==
    /\ status = "unbuilt"
    /\ config = [n_layer |-> 0, n_embd |-> 0, n_head |-> 0, n_ctx |-> 0,
                 n_positions |-> 0, vocab_size |-> 0]
    /\ heap = <<>>
    /\ values = <<>>
    /\ past = PastNone
    /\ fed = <<>>
    /\ outs = <<>>
    /\ positions = <<>>
    /\ chunks = <<>>
    /\ last = NoCall

Init ==
    /\ NoSession
    /\ attnCall = NoAttnCall
    /\ NoLMHeadModel

\* GPT2Model(config).
Construct ==
    /\ status = "unbuilt"
    /\ \E cfg \in Configs :
         /\ <<cfg.n_embd, cfg.n_head>> \in HeadSplits
         /\ config' = cfg
         /\ status' = IF GPT2ModelInit(cfg) = "" THEN "built" ELSE "construct_failed"
    /\ UNCHANGED <<heap, values, past, fed, outs, positions, chunks, last>>
    /\ UNCHANGED <<attnCall, tiedVars>>

\* One call model(input_ids, past=p) and what the caller keeps of it.
Call(input_ids, p) ==
    \E r \in {Forward(config, heap, values, input_ids, p)} :
    \E prev \in {IF chunks = <<>>
                  THEN [fed |-> [b \in 1..Len(input_ids) |-> <<>>],
                        outs |-> [b \in 1..Len(input_ids) |-> <<>>],
                        positions |-> [b \in 1..Len(input_ids) |-> <<>>]]
                  ELSE [fed |-> fed, outs |-> outs, positions |-> positions]} :
        /\ last' = [raised |-> r.raised, past |-> p, S |-> Len(input_ids[1]),
                    presents |-> r.presents, xs |-> r.xs, applied |-> r.applied,
                    position_ids |-> r.position_ids, past_length |-> r.past_length]
        /\ heap' = r.heap
        /\ values' = r.tab
        /\ IF r.raised # ""
           THEN /\ status' = "raised"
                /\ UNCHANGED <<past, fed, outs, positions, chunks>>
           ELSE /\ status' = status
                /\ past' = PastList(r.presents)
                /\ fed' = [b \in 1..Len(input_ids) |-> prev.fed[b] \o input_ids[b]]
                /\ outs' = [b \in 1..Len(input_ids) |-> prev.outs[b] \o r.hidden[b]]
                /\ positions' = [b \in 1..Len(input_ids) |->
                                   prev.positions[b] \o r.position_ids[b]]
                /\ chunks' = Append(chunks, Len(input_ids[1]))
        /\ UNCHANGED <<config, attnCall, tiedVars>>

\* The first call of a decoding session: past=None.
CallFirst ==
    /\ status = "built"
    /\ chunks = <<>>
    /\ \E B \in BatchSizes : \E S \in 1..MaxCtx : \E input_ids \in Inputs(B, S) :
         Call(input_ids, PastNone)

\* A later call of the session: the caller passes back the list the
\* previous call returned.
CallNext ==
    /\ status = "built"
    /\ chunks # <<>>
    /\ \E S \in 1..MaxCtx : \E input_ids \in Inputs(Len(fed), S) :
         Call(input_ids, past)

Next == Construct \/ CallFirst \/ CallNext

Spec == Init /\ [][Next]_vars

\* ------------------------------------------------- decoding-session claims

RECURSIVE SumSeq(_)
SumSeq(q) == IF q = <<>> THEN 0 ELSE Head(q) + SumSeq(Tail(q))

\* The sequence lengths of cache tensor id: of its key and of its value, in
\* every batch row and head.
SeqLens(id) ==
    {Rows(heap[id].k[b][h]) : b \in 1..Len(heap[id].k), h \in 1..Len(heap[id].k[1])}
    \cup {Rows(heap[id].v[b][h]) : b \in 1..Len(heap[id].v), h \in 1..Len(heap[id].v[1])}

\* C1: in a decoding session, after calls with new-token counts S1..Sk the
\* list returned holds one cache entry per layer, and the key and the value
\* of every entry have sequence length S1 + ... + Sk (so the length is the
\* same in all layers and grows from call to call).
C1_CacheLengthIsTokensFed ==
    chunks # <<>> =>
        /\ ~past.none
        /\ Len(past.ids) = config.n_layer
        /\ \A l \in 1..Len(past.ids) : SeqLens(past.ids[l]) = {SumSeq(chunks)}

C1_Witness ==
    /\ config.n_layer = 2
    /\ chunks = <<2, 1>>
    /\ SeqLens(past.ids[1]) = {3}
    /\ SeqLens(past.ids[2]) = {3}

\* C3: without explicit position_ids, the t-th new token of a call gets
\* position id P + t (t from 0), P the cached length (0 without a cache), in
\* every batch row; over a session the ids used are 0, 1, 2, ... without gap
\* or repeat.
C3_PositionIdsContinue ==
    chunks # <<>> =>
        /\ \A b \in 1..Len(positions) :
              positions[b] = [n \in 1..SumSeq(chunks) |-> n - 1]
        /\ last.raised = "" =>
              \A b \in 1..Len(last.position_ids) : \A t \in 1..last.S :
                  last.position_ids[b][t] = (SumSeq(chunks) - last.S) + (t - 1)

C3_Witness ==
    /\ Len(chunks) = 2
    /\ Len(positions) = 2
    /\ last.raised = ""
    /\ ~last.past.none
    /\ last.position_ids = <<<<1, 2>>, <<1, 2>>>>

\* C4: the hidden states a session returned, call after call with the cache
\* carried forward, are at every position those of one run of the stack on
\* the whole sequence without a cache.
C4_IncrementalEqualsFull ==
    chunks # <<>> =>
        \E full \in {Forward(config, <<>>, values, fed, PastNone)} :
            /\ full.raised = ""
            /\ \A b \in 1..Len(fed) : \A k \in 1..Len(fed[b]) :
                  outs[b][k] = full.hidden[b][k]

C4_Witness ==
    /\ chunks = <<1, 1, 1>>
    /\ config.n_layer = 2
    /\ config.n_head = 2
    /\ Len(outs[1]) = 3

\* C6: a configuration whose n_head does not divide n_embd never yields a
\* model: construction raises, and no forward call runs on it.
C6_NoModelWithInexactSplit ==
    (status # "unbuilt" /\ (config.n_head = 0 \/ config.n_embd % config.n_head # 0)) =>
        /\ status = "construct_failed"
        /\ chunks = <<>>
        /\ last = NoCall
        /\ heap = <<>>

C6_Witness ==
    /\ status = "construct_failed"
    /\ config.n_embd = 1
    /\ config.n_head = 2

\* C9: a call never changes a cache tensor that existed before it; every
\* entry it returns is a new tensor whose first P sequence positions are the
\* incoming entry's keys and values in their order, followed by the S new
\* keys and values in input order.
C9_CacheReadOnlyAndAppended ==
    [][chunks' # chunks =>
        /\ \A id \in 1..Len(heap) : heap'[id] = heap[id]
        /\ \A l \in 1..Len(last'.presents) :
             \E new \in {heap'[last'.presents[l]]} :
             \E P \in {IF last'.past.none THEN 0
                       ELSE Rows(heap[last'.past.ids[l]].k[1][1])} :
               /\ last'.presents[l] > Len(heap)
               /\ \A b \in 1..Len(new.k) : \A h \in 1..Len(new.k[b]) :
                    /\ Rows(new.k[b][h]) = P + last'.S
                    /\ Rows(new.v[b][h]) = P + last'.S
                    /\ P > 0 =>
                         /\ SubSeq(new.k[b][h], 1, P) = heap[last'.past.ids[l]].k[b][h]
                         /\ SubSeq(new.v[b][h], 1, P) = heap[last'.past.ids[l]].v[b][h]
                    /\ \A t \in 1..last'.S :
                         \A f \in 1..(config.n_embd \div config.n_head) :
                           /\ new.k[b][h][P + t][f] =
                                Conv1D("attn.c_attn", l,
                                       config.n_embd + (h - 1) * (config.n_embd \div config.n_head) + f,
                                       LayerNorm("ln_1", l, last'.xs[l][b][t]))
                           /\ new.v[b][h][P + t][f] =
                                Conv1D("attn.c_attn", l,
                                       2 * config.n_embd + (h - 1) * (config.n_embd \div config.n_head) + f,
                                       LayerNorm("ln_1", l, last'.xs[l][b][t]))
      ]_vars

C9_Witness ==
    /\ Len(chunks) = 2
    /\ config.n_embd = 2
    /\ config.n_head = 1
    /\ last.raised = ""
    /\ ~last.past.none
    /\ last.S = 2
    /\ Rows(heap[last.past.ids[1]].k[1][1]) = 1
    /\ Rows(heap[last.presents[1]].k[1][1]) = 3

\* ------------------------------------------- calls with any list as past

\* The model is built and the caller holds cache entries of its own, one of
\* each sequence length 1..MaxCtx (heap id P has length P), for batch size 1.
InitAny ==
    /\ status = "built"
    /\ config \in {c \in Configs : <<c.n_embd, c.n_head>> \in HeadSplits
                                   /\ GPT2ModelInit(c) = ""}
    /\ heap = [P \in 1..MaxCtx |-> ExtCache(config, 1, P)]
    /\ values = <<>>
    /\ past = PastNone
    /\ fed = <<>>
    /\ outs = <<>>
    /\ positions = <<>>
    /\ chunks = <<>>
    /\ last = NoCall
    /\ attnCall = NoAttnCall
    /\ NoLMHeadModel

\* The lists a caller may pass as past: up to MaxLayer + 1 of its entries.
RECURSIVE PastLists(_)
PastLists(n) ==
    IF n = 0 THEN {<<>>}
    ELSE PastLists(n - 1)
         \cup {Append(q, P) : q \in {q \in PastLists(n - 1) : Len(q) = n - 1}, P \in 1..MaxCtx}

\* One call with past=None or with any list of the caller's entries.
CallAny ==
    /\ status = "built"
    /\ last = NoCall
    /\ \E p \in {PastNone} \cup {PastList(ids) : ids \in PastLists(MaxLayer + 1)} :
       \E S \in 1..MaxCtx : \E input_ids \in Inputs(1, S) :
         Call(input_ids, p)

NextAny == CallAny

SpecAny == InitAny /\ [][NextAny]_vars

\* C7: a call given a list whose entries do not all have the same sequence
\* length raises; it never returns hidden states and caches.
C7_MismatchedCacheRaises ==
    (/\ last.S > 0
     /\ ~last.past.none
     /\ Len(last.past.ids) = config.n_layer
     /\ \E i, j \in 1..Len(last.past.ids) : last.past.ids[i] # last.past.ids[j])
    => last.raised # ""

\* C8: a call that returns has applied blocks 1..n_layer once each, in
\* order, and returns n_layer entries, entry i produced by block i.
C8_AllBlocksApplied ==
    (last.S > 0 /\ last.raised = "") =>
        /\ last.applied = [i \in 1..config.n_layer |-> i]
        /\ Len(last.presents) = config.n_layer
        /\ \A i \in 1..Len(last.presents) :
              heap[last.presents[i]].k[1][1][Rows(heap[last.presents[i]].k[1][1])][1].l = i

\* ------------------------------------------------ direct attention calls

\* Attention.forward of layer l of a model with configuration cfg, on S new
\* positions after a cache of length P (none when P = 0).
AttnInput(S) == <<[t \in 1..S |-> Term("x", 0, t, <<>>)]>>

AttentionCall ==
    \E cfg \in {c \in Configs : <<c.n_embd, c.n_head>> \in HeadSplits
                                /\ GPT2ModelInit(c) = ""} :
    \E n_ctx \in 1..MaxCtx : \E l \in 1..cfg.n_layer :
    \E P \in 0..MaxCtx : \E S \in 1..MaxCtx :
    \E h0 \in {IF P = 0 THEN <<>> ELSE <<ExtCache(cfg, 1, P)>>} :
    \E r \in {AttentionForward([cfg EXCEPT !.n_ctx = n_ctx], l, h0, AttnInput(S),
                               IF P = 0 THEN 0 ELSE 1)} :
        /\ attnCall' = [S |-> S, P |-> P, n_ctx |-> n_ctx, l |-> l,
                        n_embd |-> cfg.n_embd, n_head |-> cfg.n_head,
                        raised |-> r.raised, a |-> r.a,
                        present |-> IF r.raised = "" THEN r.heap[r.present] ELSE <<>>,
                        b |-> MaskSlice(n_ctx, S, P + S)]
        /\ UNCHANGED <<sessionVars, tiedVars>>

NextMask == AttentionCall

SpecMask == Init /\ [][NextMask]_vars

\* The key columns (0-based) that new query row r (0-based) of head h
\* attended to in the last attention call: those whose value took part in
\* the row's weighted sum.
AttendedCols(h, r) ==
    LET hf == attnCall.n_embd \div attnCall.n_head
        row == attnCall.a[1][r + 1].args[1].args[(h - 1) * hf + 1].args
    IN  {j \in 0..(attnCall.P + attnCall.S - 1) :
            \E i \in 1..Len(row) : row[i].args[2] = attnCall.present.v[1][h][j + 1][1]}

\* C2: with P cached and S new positions, P + S <= n_ctx, the mask slice
\* lets new row r attend to key column j exactly when j <= P + r, and the
\* attention output of row r is computed from exactly those columns.
C2_MaskWindowAligned ==
    (attnCall.S > 0 /\ attnCall.P + attnCall.S <= attnCall.n_ctx) =>
        /\ attnCall.raised = ""
        /\ Len(attnCall.b) = attnCall.S
        /\ \A r \in 0..(attnCall.S - 1) :
             /\ Len(attnCall.b[r + 1]) = attnCall.P + attnCall.S
             /\ \A j \in 0..(attnCall.P + attnCall.S - 1) :
                   attnCall.b[r + 1][j + 1] = (IF j <= attnCall.P + r THEN 1 ELSE 0)
             /\ \A h \in 1..attnCall.n_head :
                   AttendedCols(h, r) = 0..(attnCall.P + r)

C2_Witness ==
    /\ attnCall.S = 2
    /\ attnCall.P = 1
    /\ attnCall.n_ctx = 3
    /\ attnCall.raised = ""
    /\ attnCall.b = <<<<1, 1, 0>>, <<1, 1, 1>>>>

\* C10 as stated: without a cache the mask on the S x S scores is strictly
\* lower-triangular (row r sees column j only when j < r).
C10_StrictLowerTriangular ==
    (attnCall.S > 0 /\ attnCall.P = 0 /\ attnCall.S <= attnCall.n_ctx) =>
        \A r \in 1..attnCall.S : \A j \in 1..attnCall.S :
            attnCall.b[r][j] = (IF j < r THEN 1 ELSE 0)

\* C10, amended: without a cache the key length and the query length are
\* both S, and the mask on the S x S scores is lower-triangular with the
\* diagonal included: row r sees column j exactly when j <= r.
C10_LowerTriangularWithDiagonal ==
    (attnCall.S > 0 /\ attnCall.P = 0 /\ attnCall.S <= attnCall.n_ctx) =>
        /\ attnCall.raised = ""
        /\ \A h \in 1..attnCall.n_head :
             /\ Rows(attnCall.present.k[1][h]) = attnCall.S
             /\ Rows(attnCall.present.v[1][h]) = attnCall.S
        /\ Len(attnCall.a[1]) = attnCall.S
        /\ Len(attnCall.b) = attnCall.S
        /\ \A r \in 1..attnCall.S :
             /\ Len(attnCall.b[r]) = attnCall.S
             /\ \A j \in 1..attnCall.S :
                   attnCall.b[r][j] = (IF j <= r THEN 1 ELSE 0)
             /\ \A h \in 1..attnCall.n_head :
                   Cardinality(AttendedCols(h, r - 1)) = r

C10_Witness ==
    /\ attnCall.S = 3
    /\ attnCall.P = 0
    /\ attnCall.n_ctx = 3
    /\ attnCall.raised = ""
    /\ attnCall.b = <<<<1, 0, 0>>, <<1, 1, 0>>, <<1, 1, 1>>>>

\* --------------------------------------------------------- GPT2LMHeadModel

\* GPT2LMHeadModel(config): the transformer's wte gets a new parameter, and
\* the head is built on transformer.wte.weight.
ConstructLM ==
    /\ wte = 0
    /\ \E w0 \in Matrices : \E init \in Matrices :
       \E r \in {set_embeddings_weights(1 :> w0, 1, init)} :
         /\ wte' = 1
         /\ decoder' = [weight |-> r.weight, bias |-> r.bias]
         /\ params' = Live(r.params, {1, r.weight, r.bias})
    /\ UNCHANGED <<lmOps, lmOut, sessionVars, attnCall>>

\* GPT2LMHeadModel.set_tied.
SetTied ==
    /\ wte # 0
    /\ \E init \in Matrices :
       \E r \in {set_embeddings_weights(params, wte, init)} :
         /\ decoder' = [weight |-> r.weight, bias |-> r.bias]
         /\ params' = Live(r.params, {wte, r.weight, r.bias})
    /\ lmOps' = lmOps \cup {"set_tied"}
    /\ UNCHANGED <<wte, lmOut, sessionVars, attnCall>>

\* The caller updates the embedding table in place (an optimizer step, a
\* load into the existing parameter).
UpdateEmbedding ==
    /\ wte # 0
    /\ \E m \in Matrices : params' = [params EXCEPT ![wte] = m]
    /\ lmOps' = lmOps \cup {"update"}
    /\ UNCHANGED <<wte, decoder, lmOut, sessionVars, attnCall>>

\* lm_head(hidden_state); the record keeps what transformer.wte.weight
\* held at that moment.
HeadForward ==
    /\ wte # 0
    /\ \E hidden \in Hiddens :
         lmOut' = [hidden |-> hidden,
                   logits |-> LMHeadForward(params, decoder, hidden),
                   table |-> params[wte], ops |-> lmOps]
    /\ UNCHANGED <<params, wte, decoder, lmOps, sessionVars, attnCall>>

NextTied == ConstructLM \/ SetTied \/ UpdateEmbedding \/ HeadForward

SpecTied == Init /\ [][NextTied]_vars

\* C5: once the model is constructed, and after any set_tied,
\* lm_head.decoder.weight and transformer.wte.weight are one parameter, the
\* head has no bias, and the head's logits are computed from the values the
\* embedding table holds at that moment.
C5_HeadSharesEmbedding ==
    wte # 0 =>
        /\ decoder.weight = wte
        /\ decoder.bias = 0
        /\ DOMAIN params = {wte}
        /\ lmOut # NoLmOut =>
              lmOut.logits = [v \in 1..2 |-> lmOut.hidden[1] * lmOut.table[v][1]
                                             + lmOut.hidden[2] * lmOut.table[v][2]]

C5_Witness ==
    /\ wte # 0
    /\ decoder.weight = wte
    /\ lmOut.ops = {"set_tied", "update"}
    /\ lmOut.hidden = <<1, 1>>
    /\ lmOut.table = <<<<1, 0>>, <<1, 1>>>>
    /\ lmOut.logits = <<1, 2>>

====
